---- MODULE Spec2Model ----
(***************************************************************************)
(* Model of cozepy.chat.ChatIterator (src/cozepy/chat/__init__.py).        *)
(*                                                                         *)
(* A ChatIterator wraps an iterator of raw lines (self._iters).  Each call *)
(* of __next__ (a "pull") reads lines until two non-empty ones have been   *)
(* counted, then dispatches on the event name.  The model follows the      *)
(* method statement by statement: pc is the position inside __next__, and  *)
(* event, data, line, times are its local variables.  Lines are TLA+       *)
(* strings, so startswith and slicing are computed on the text itself.     *)
(*                                                                         *)
(* The underlying iterator is the environment: each next(self._iters)      *)
(* either yields some line of Lines or raises StopIteration; once it has   *)
(* raised StopIteration it keeps doing so.                                 *)
(***************************************************************************)
EXTENDS Integers, Sequences, FiniteSets, TLC

VARIABLES
    pc,         \* position in __next__: "idle" (not running), "loop", "dispatch"
    event,      \* local `event` of __next__
    data,       \* local `data` of __next__
    line,       \* local `line` of __next__
    times,      \* local `times` of __next__
    exhausted,  \* the underlying iterator has raised StopIteration
    pos,        \* number of lines consumed from the underlying iterator so far
    read,       \* history: the lines the current (or last) pull consumed, in order
    result,     \* history: outcome of the last finished pull
    terminated, \* history: an earlier pull raised StopIteration at the `done` branch
    failed,     \* history: an earlier pull raised an exception other than StopIteration
    returns,    \* history: the ChatEvents the pulls have returned so far, in order
    nonblank,   \* history: number of non-empty lines consumed so far
    wire        \* history: the non-empty lines consumed so far, while they pair up into
                \* payload frames with at most one done frame at the end; else Garbled

vars ==
    <<pc, event, data, line, times, exhausted, pos, read, result, terminated, failed,
      returns, nonblank, wire>>

-----------------------------------------------------------------------------
(* Bounds *)

\* Lines the underlying iterator may yield in one behaviour.
MaxLines == 6

-----------------------------------------------------------------------------
(* Python string primitives *)

\* str.startswith(prefix)
StartsWith(s, prefix) ==
    /\ Len(s) >= Len(prefix)
    /\ SubSeq(s, 1, Len(prefix)) = prefix

\* Mutant of SliceFrom: a space after the colon is dropped, as SSE parsers do.
SliceFrom_LeadingSpaceDropped(s, n) ==
    IF Len(s) > n /\ SubSeq(s, n + 1, n + 1) = " " THEN SubSeq(s, n + 2, Len(s))
    ELSE SubSeq(s, n + 1, Len(s))

\* Mutant of SliceFrom: the slice starts one character early (line[5:] for line[6:]).
SliceFrom_OneEarly(s, n) == SubSeq(s, n, Len(s))

\* s[n:]
SliceFrom(s, n) == SubSeq(s, n + 1, Len(s))

-----------------------------------------------------------------------------
(* Enumerations of the data model *)

MessageRole == {"user", "assistant"}

MessageType ==
    {"question", "answer", "function_call", "tool_output", "tool_response",
     "follow_up", "verbose", ""}

MessageContentType == {"text", "object_string", "card"}

ChatStatus == {"created", "in_progress", "completed", "failed", "requires_action"}

\* class Event(str, Enum): a str-enum member compares equal to its value.
Event_conversation_chat_created == "conversation.chat.created"
Event_conversation_chat_in_progress == "conversation.chat.in_progress"
Event_conversation_message_delta == "conversation.message.delta"
Event_conversation_message_completed == "conversation.message.completed"
Event_conversation_chat_completed == "conversation.chat.completed"
Event_conversation_chat_failed == "conversation.chat.failed"
Event_conversation_chat_requires_action == "conversation.chat.requires_action"
Event_error == "error"
Event_done == "done"

Event ==
    {Event_conversation_chat_created, Event_conversation_chat_in_progress,
     Event_conversation_message_delta, Event_conversation_message_completed,
     Event_conversation_chat_completed, Event_conversation_chat_failed,
     Event_conversation_chat_requires_action, Event_error, Event_done}

-----------------------------------------------------------------------------
(* Payload texts and their decoding *)

MsgJson ==
    "{\"role\":\"assistant\",\"type\":\"answer\",\"content\":\"Hi\",\"content_type\":\"text\"}"
MsgNoRoleJson == "{\"content\":\"Hi\",\"content_type\":\"text\"}"
ChatJson ==
    "{\"id\":\"c1\",\"conversation_id\":\"v1\",\"bot_id\":\"b1\",\"status\":\"created\"}"
ErrJson == "{\"code\":500,\"msg\":\"internal\"}"
EmptyObjJson == "{}"
NotJson == "oops"

\* Data values carried by the `data:` lines of the model.
DataTexts == {"", MsgJson, MsgNoRoleJson, ChatJson, ErrJson, EmptyObjJson, NotJson}

\* json.loads on the payload texts above: the decoded object, or JSONDecodeError.
JsonLoads(s) ==
    CASE s = MsgJson ->
           [ok |-> TRUE,
            obj |-> [role |-> "assistant", type |-> "answer", content |-> "Hi",
                     content_type |-> "text"]]
      [] s = MsgNoRoleJson ->
           [ok |-> TRUE, obj |-> [content |-> "Hi", content_type |-> "text"]]
      [] s = ChatJson ->
           [ok |-> TRUE,
            obj |-> [id |-> "c1", conversation_id |-> "v1", bot_id |-> "b1",
                     status |-> "created"]]
      [] s = ErrJson -> [ok |-> TRUE, obj |-> [code |-> 500, msg |-> "internal"]]
      [] s = EmptyObjJson -> [ok |-> TRUE, obj |-> [x \in {} |-> ""]]
      [] OTHER -> [ok |-> FALSE, obj |-> [x \in {} |-> ""]]

None == [cls |-> "NoneType"]

\* Message.model_validate: role, content, content_type are required, type defaults to "".
MessageValid(obj) ==
    /\ {"role", "content", "content_type"} \subseteq DOMAIN obj
    /\ obj.role \in MessageRole
    /\ obj.content_type \in MessageContentType
    /\ "type" \in DOMAIN obj => obj.type \in MessageType

Message(obj) ==
    [cls |-> "Message", role |-> obj.role,
     type |-> IF "type" \in DOMAIN obj THEN obj.type ELSE "",
     content |-> obj.content, content_type |-> obj.content_type]

\* Chat.model_validate: id, conversation_id, bot_id, status are required.
ChatValid(obj) ==
    /\ {"id", "conversation_id", "bot_id", "status"} \subseteq DOMAIN obj
    /\ obj.status \in ChatStatus

Chat(obj) ==
    [cls |-> "Chat", id |-> obj.id, conversation_id |-> obj.conversation_id,
     bot_id |-> obj.bot_id, status |-> obj.status]

\* class ChatEvent: chat and message default to None.
ChatEvent(e, c, m) == [cls |-> "ChatEvent", event |-> e, chat |-> c, message |-> m]

-----------------------------------------------------------------------------
(* Outcomes of a pull *)

Return(v) == [kind |-> "return", exc |-> "", msg |-> "", value |-> v]
Raise(e, m) == [kind |-> "raise", exc |-> e, msg |-> m, value |-> None]
NoResult == [kind |-> "none", exc |-> "", msg |-> "", value |-> None]

-----------------------------------------------------------------------------
(* Lines of the underlying iterator *)

EventNames == Event \cup {"", "something.else", " done", "done "}

EventLines == {"event:" \o e : e \in EventNames}
DataLines == {"data:" \o d : d \in DataTexts}
OtherLines == {"\r", "id:1"}

Lines == {""} \cup EventLines \cup DataLines \cup OtherLines

-----------------------------------------------------------------------------
(* ChatIterator *)

\* ChatIterator.__init__: stores the iterator, reads nothing.
Init ==
    /\ pc = "idle"
    /\ event = ""
    /\ data = ""
    /\ line = ""
    /\ times = 0
    /\ exhausted = FALSE
    /\ pos = 0
    /\ read = <<>>
    /\ result = NoResult
    /\ terminated = FALSE
    /\ failed = FALSE
    /\ returns = <<>>
    /\ nonblank = 0
    /\ wire = <<>>

\* A pull ends by raising: __next__ is left with the exception r.
Leave(r) ==
    /\ pc' = "idle"
    /\ result' = r
    /\ terminated' = terminated
    /\ failed' = (failed \/ (r.kind = "raise" /\ r.exc # "StopIteration"))
    /\ returns' = returns

\* Mutant of NextBegin: the frame fields are attributes that outlive the call; only
\* the line counter is reset.
NextBegin_FrameKept ==
    /\ pc = "idle"
    /\ pc' = "loop"
    /\ line' = ""
    /\ times' = 0
    /\ read' = <<>>
    /\ UNCHANGED <<event, data, exhausted, pos, result, terminated, failed, returns, nonblank, wire>>

\* Entry of __next__: the locals are initialised.
NextBegin ==
    /\ pc = "idle"
    /\ pc' = "loop"
    /\ event' = ""
    /\ data' = ""
    /\ line' = ""
    /\ times' = 0
    /\ read' = <<>>
    /\ UNCHANGED <<exhausted, pos, result, terminated, failed, returns, nonblank, wire>>

\* After `times += 1`: the loop condition `times < 2` is tested again.
LoopOrDispatch(t) == IF t < 2 THEN "loop" ELSE "dispatch"

\* Mutant of ReadStop: the end of the line sequence is reported as a framing error.
ReadStop_IsError ==
    /\ pc = "loop"
    /\ exhausted' = TRUE
    /\ Leave(Raise("Exception", "invalid event: "))
    /\ UNCHANGED <<event, data, line, times, pos, read, nonblank, wire>>

\* next(self._iters) raises StopIteration, which leaves __next__ as it is.
ReadStop ==
    /\ pc = "loop"
    /\ exhausted' = TRUE
    /\ Leave(Raise("StopIteration", ""))
    /\ UNCHANGED <<event, data, line, times, pos, read, nonblank, wire>>

\* The two lists of event kinds of the dispatch.
MessageBearing == {Event_conversation_message_delta, Event_conversation_message_completed}
ChatBearing ==
    {Event_conversation_chat_created, Event_conversation_chat_in_progress,
     Event_conversation_chat_completed, Event_conversation_chat_failed,
     Event_conversation_chat_requires_action}

\* The lines a and b, in either order, are a frame of a message or chat kind whose
\* payload decodes against the schema of the kind.
PayloadFrame(a, b) ==
    LET el == IF StartsWith(a, "event:") THEN a ELSE b
        dl == IF StartsWith(a, "event:") THEN b ELSE a
        e == SliceFrom(el, 6)
        d == SliceFrom(dl, 5)
    IN  /\ StartsWith(el, "event:")
        /\ ~StartsWith(dl, "event:")
        /\ StartsWith(dl, "data:")
        /\ JsonLoads(d).ok
        /\ \/ e \in MessageBearing /\ MessageValid(JsonLoads(d).obj)
           \/ e \in ChatBearing /\ ChatValid(JsonLoads(d).obj)

\* The lines a and b, in either order, are the line event:done and a data: line.
DoneFrame(a, b) ==
    LET el == IF StartsWith(a, "event:") THEN a ELSE b
        dl == IF StartsWith(a, "event:") THEN b ELSE a
    IN  /\ el = "event:" \o Event_done
        /\ ~StartsWith(dl, "event:")
        /\ StartsWith(dl, "data:")

\* Value of wire once the lines consumed are no longer payload frames then a done frame.
Garbled == <<"?">>

\* wire after the underlying iterator has yielded the non-empty line l.
WireAfter(w, l) ==
    IF w = Garbled THEN Garbled
    ELSE IF Len(w) % 2 = 0
      THEN IF Len(w) >= 2 /\ DoneFrame(w[Len(w) - 1], w[Len(w)]) THEN Garbled
           ELSE Append(w, l)
    ELSE IF PayloadFrame(w[Len(w)], l) \/ DoneFrame(w[Len(w)], l) THEN Append(w, l)
    ELSE Garbled

\* next(self._iters) yields l: the bookkeeping common to every branch.
Consume(l) ==
    /\ pc = "loop"
    /\ ~exhausted
    /\ pos < MaxLines
    /\ line' = l
    /\ pos' = pos + 1
    /\ read' = Append(read, l)
    /\ nonblank' = (IF l = "" THEN nonblank ELSE nonblank + 1)
    /\ wire' = (IF l = "" THEN wire ELSE WireAfter(wire, l))
    /\ UNCHANGED exhausted

\* Mutant of ReadBlank: an empty line falls through to `times += 1`.
ReadBlank_Counted ==
    /\ Consume("")
    /\ times' = times + 1
    /\ pc' = LoopOrDispatch(times + 1)
    /\ UNCHANGED <<event, data, result, terminated, failed, returns>>

\* if line == "": continue
ReadBlank ==
    /\ Consume("")
    /\ UNCHANGED <<pc, event, data, times, result, terminated, failed, returns>>

\* Mutant of ReadEvent: a further event: line replaces the event name (the last one
\* wins) and is not counted, instead of raising.
ReadEvent_LastWins ==
    \E l \in Lines :
        /\ l # ""
        /\ StartsWith(l, "event:")
        /\ Consume(l)
        /\ event' = SliceFrom(l, 6)
        /\ times' = (IF event = "" THEN times + 1 ELSE times)
        /\ pc' = LoopOrDispatch(IF event = "" THEN times + 1 ELSE times)
        /\ UNCHANGED <<data, result, terminated, failed, returns>>

\* elif line.startswith("event:")
ReadEvent ==
    \E l \in Lines :
        /\ l # ""
        /\ StartsWith(l, "event:")
        /\ Consume(l)
        /\ IF event = ""
             THEN /\ event' = SliceFrom(l, 6)
                  /\ times' = times + 1
                  /\ pc' = LoopOrDispatch(times + 1)
                  /\ UNCHANGED <<data, result, terminated, failed, returns>>
             ELSE /\ Leave(Raise("Exception", "invalid event: " \o l))
                  /\ UNCHANGED <<event, data, times>>

\* elif line.startswith("data:")
ReadData ==
    \E l \in Lines :
        /\ l # ""
        /\ ~StartsWith(l, "event:")
        /\ StartsWith(l, "data:")
        /\ Consume(l)
        /\ IF data = ""
             THEN /\ data' = SliceFrom(l, 5)
                  /\ times' = times + 1
                  /\ pc' = LoopOrDispatch(times + 1)
                  /\ UNCHANGED <<event, result, terminated, failed, returns>>
             ELSE /\ Leave(Raise("Exception", "invalid event: " \o l))
                  /\ UNCHANGED <<event, data, times>>

\* Mutant of ReadInvalid: an unprefixed line is skipped like an empty one.
ReadInvalid_Skip ==
    \E l \in Lines :
        /\ l # ""
        /\ ~StartsWith(l, "event:")
        /\ ~StartsWith(l, "data:")
        /\ Consume(l)
        /\ UNCHANGED <<pc, event, data, times, result, terminated, failed, returns>>

\* else: raise Exception(f"invalid event: {line}")
ReadInvalid ==
    \E l \in Lines :
        /\ l # ""
        /\ ~StartsWith(l, "event:")
        /\ ~StartsWith(l, "data:")
        /\ Consume(l)
        /\ Leave(Raise("Exception", "invalid event: " \o l))
        /\ UNCHANGED <<event, data, times>>

\* Mutant of DecodeMessage: a payload that does not decode ends the iteration.
DecodeMessage_FailureIsStop(e, d) ==
    IF ~JsonLoads(d).ok THEN Raise("StopIteration", "")
    ELSE IF ~MessageValid(JsonLoads(d).obj) THEN Raise("StopIteration", "")
    ELSE Return(ChatEvent(e, None, Message(JsonLoads(d).obj)))

\* Message.model_validate(json.loads(d)) / Chat.model_validate(json.loads(d))
DecodeMessage(e, d) ==
    IF ~JsonLoads(d).ok THEN Raise("JSONDecodeError", d)
    ELSE IF ~MessageValid(JsonLoads(d).obj) THEN Raise("ValidationError", "Message")
    ELSE Return(ChatEvent(e, None, Message(JsonLoads(d).obj)))

DecodeChat(e, d) ==
    IF ~JsonLoads(d).ok THEN Raise("JSONDecodeError", d)
    ELSE IF ~ChatValid(JsonLoads(d).obj) THEN Raise("ValidationError", "Chat")
    ELSE Return(ChatEvent(e, Chat(JsonLoads(d).obj), None))

\* Mutant of Dispatch: conversation.message.completed is missing from the message list.
Dispatch_MessageKindDropped(e, d, l) ==
    IF e = Event_done THEN Raise("StopIteration", "")
    ELSE IF e = Event_error THEN Raise("Exception", "error event: " \o l)
    ELSE IF e \in {Event_conversation_message_delta}
      THEN DecodeMessage(e, d)
    ELSE IF e \in {Event_conversation_chat_created, Event_conversation_chat_in_progress,
                   Event_conversation_chat_completed, Event_conversation_chat_failed,
                   Event_conversation_chat_requires_action}
      THEN DecodeChat(e, d)
    ELSE Raise("Exception", "unknown event: " \o l)

\* Mutant of Dispatch: the final else ends the iteration instead of raising.
Dispatch_UnknownIsStop(e, d, l) ==
    IF e = Event_done THEN Raise("StopIteration", "")
    ELSE IF e = Event_error THEN Raise("Exception", "error event: " \o l)
    ELSE IF e \in {Event_conversation_message_delta, Event_conversation_message_completed}
      THEN DecodeMessage(e, d)
    ELSE IF e \in {Event_conversation_chat_created, Event_conversation_chat_in_progress,
                   Event_conversation_chat_completed, Event_conversation_chat_failed,
                   Event_conversation_chat_requires_action}
      THEN DecodeChat(e, d)
    ELSE Raise("StopIteration", "")

\* The if/elif chain after the loop, on the locals event, data and line.
Dispatch(e, d, l) ==
    IF e = Event_done THEN Raise("StopIteration", "")
    ELSE IF e = Event_error THEN Raise("Exception", "error event: " \o l)
    ELSE IF e \in {Event_conversation_message_delta, Event_conversation_message_completed}
      THEN DecodeMessage(e, d)
    ELSE IF e \in {Event_conversation_chat_created, Event_conversation_chat_in_progress,
                   Event_conversation_chat_completed, Event_conversation_chat_failed,
                   Event_conversation_chat_requires_action}
      THEN DecodeChat(e, d)
    ELSE Raise("Exception", "unknown event: " \o l)

\* __next__ as a function of the lines its calls of next(self._iters) yield: the
\* loop from line ls[i] on with the locals e, d, l, t, then the dispatch.  A list
\* that runs out stands for next(self._iters) raising StopIteration.
RECURSIVE PullLoop(_, _, _, _, _, _)
PullLoop(ls, i, e, d, l, t) ==
    IF t >= 2 THEN Dispatch(e, d, l)
    ELSE IF i > Len(ls) THEN Raise("StopIteration", "")
    ELSE IF ls[i] = "" THEN PullLoop(ls, i + 1, e, d, ls[i], t)
    ELSE IF StartsWith(ls[i], "event:")
      THEN IF e = "" THEN PullLoop(ls, i + 1, SliceFrom(ls[i], 6), d, ls[i], t + 1)
           ELSE Raise("Exception", "invalid event: " \o ls[i])
    ELSE IF StartsWith(ls[i], "data:")
      THEN IF d = "" THEN PullLoop(ls, i + 1, e, SliceFrom(ls[i], 5), ls[i], t + 1)
           ELSE Raise("Exception", "invalid event: " \o ls[i])
    ELSE Raise("Exception", "invalid event: " \o ls[i])

\* One call of __next__ on an iterator that yields exactly the lines ls.
PullOf(ls) == PullLoop(ls, 1, "", "", "", 0)

\* The loop has counted two lines: dispatch and leave __next__.
NextDispatch ==
    /\ pc = "dispatch"
    /\ pc' = "idle"
    /\ result' = Dispatch(event, data, line)
    /\ terminated' = (terminated \/ event = Event_done)
    /\ failed' = (failed \/ (Dispatch(event, data, line).kind = "raise"
                             /\ Dispatch(event, data, line).exc # "StopIteration"))
    /\ returns' = (IF Dispatch(event, data, line).kind = "return"
                     THEN Append(returns, Dispatch(event, data, line).value)
                     ELSE returns)
    /\ UNCHANGED <<event, data, line, times, exhausted, pos, read, nonblank, wire>>

Next ==
    \/ NextBegin
    \/ ReadStop
    \/ ReadBlank
    \/ ReadEvent
    \/ ReadData
    \/ ReadInvalid
    \/ NextDispatch

Spec == Init /\ [][Next]_vars

TypeOK ==
    /\ pc \in {"idle", "loop", "dispatch"}
    /\ times \in 0..2
    /\ pos \in 0..MaxLines
    /\ exhausted \in BOOLEAN
    /\ terminated \in BOOLEAN
    /\ failed \in BOOLEAN
    /\ result.kind \in {"none", "return", "raise"}

-----------------------------------------------------------------------------
(* Vocabulary of the properties *)

\* sub occurs in s
Contains(s, sub) ==
    \E i \in 1..(Len(s) - Len(sub) + 1) : SubSeq(s, i, i + Len(sub) - 1) = sub

IsNonBlank(l) == l # ""

\* The non-empty lines the current (or last) pull consumed.
NonBlankRead == SelectSeq(read, IsNonBlank)

IsEventLine(l) == StartsWith(l, "event:")
IsDataLine(l) == ~StartsWith(l, "event:") /\ StartsWith(l, "data:")

\* The last pull has finished and went through the dispatch step.
PullDispatched == pc = "idle" /\ times = 2

\* The last pull read one `event:` line and one `data:` line, in either order.
OneEventOneData ==
    /\ Len(NonBlankRead) = 2
    /\ \/ IsEventLine(NonBlankRead[1]) /\ IsDataLine(NonBlankRead[2])
       \/ IsDataLine(NonBlankRead[1]) /\ IsEventLine(NonBlankRead[2])

\* Event name and data value of such a frame, taken from the lines on the wire.
WireEvent ==
    IF IsEventLine(NonBlankRead[1]) THEN SliceFrom(NonBlankRead[1], 6)
    ELSE SliceFrom(NonBlankRead[2], 6)
WireData ==
    IF IsDataLine(NonBlankRead[1]) THEN SliceFrom(NonBlankRead[1], 5)
    ELSE SliceFrom(NonBlankRead[2], 5)

CleanStop(r) == r.kind = "raise" /\ r.exc = "StopIteration"
FramingError(r) ==
    r.kind = "raise" /\ r.exc = "Exception" /\ StartsWith(r.msg, "invalid event: ")
UnknownEventError(r) ==
    r.kind = "raise" /\ r.exc = "Exception" /\ StartsWith(r.msg, "unknown event: ")
StreamError(r) ==
    r.kind = "raise" /\ r.exc = "Exception" /\ StartsWith(r.msg, "error event: ")

-----------------------------------------------------------------------------
(* Properties *)

\* C1: a pull that reads a well-formed frame (one event: line, one data: line, either
\* order, empty lines skipped, schema-valid payload) returns a ChatEvent of the frame's
\* kind; for the two message kinds message is the decoded Message and chat is None, for
\* the five chat kinds chat is the decoded Chat and message is None.
C1_WellFormedFrameYieldsTypedEvent ==
    (PullDispatched /\ OneEventOneData) =>
        /\ (/\ WireEvent \in MessageBearing
            /\ JsonLoads(WireData).ok
            /\ MessageValid(JsonLoads(WireData).obj))
           => /\ result.kind = "return"
              /\ result.value.event = WireEvent
              /\ result.value.message = Message(JsonLoads(WireData).obj)
              /\ result.value.chat = None
        /\ (/\ WireEvent \in ChatBearing
            /\ JsonLoads(WireData).ok
            /\ ChatValid(JsonLoads(WireData).obj))
           => /\ result.kind = "return"
              /\ result.value.event = WireEvent
              /\ result.value.chat = Chat(JsonLoads(WireData).obj)
              /\ result.value.message = None

\* A message frame read data-first after an empty line has returned its ChatEvent.
C1_Witness ==
    /\ PullDispatched
    /\ read = <<"", "data:" \o MsgJson, "event:" \o Event_conversation_message_completed>>
    /\ result.kind = "return"
    /\ result.value.message.cls = "Message"

\* C2: a completed frame with the line event:done ends the pull by StopIteration,
\* whatever its data value is; no exception other than StopIteration, no ChatEvent.
C2_DoneFrameStopsCleanly ==
    (PullDispatched /\ \E i \in 1..Len(read) : read[i] = "event:" \o Event_done)
        => result = Raise("StopIteration", "")

\* A done frame with the empty data value has ended the pull cleanly.
C2_Witness ==
    /\ PullDispatched
    /\ read = <<"event:done", "data:">>
    /\ CleanStop(result)

\* C3: if the line sequence ends after a pull has counted only one line of its frame,
\* the pull fails with a framing error.
C3_IncompleteFrameIsFramingError ==
    (pc = "idle" /\ times = 1 /\ exhausted) => FramingError(result)

\* C4: a pull whose first two non-empty lines are both event: lines, or both data:
\* lines, has failed with a framing error (it never reaches the dispatch step).
C4_DuplicateLineIsFramingError ==
    (/\ Len(NonBlankRead) = 2
     /\ \/ IsEventLine(NonBlankRead[1]) /\ IsEventLine(NonBlankRead[2])
        \/ IsDataLine(NonBlankRead[1]) /\ IsDataLine(NonBlankRead[2]))
        => (pc = "idle" /\ FramingError(result))

\* C5: a non-empty line with neither prefix, read as the first or the second line of
\* a frame, ends the pull with a framing error: no ChatEvent, no clean stop.
C5_UnprefixedLineIsFramingError ==
    (/\ read # <<>>
     /\ read[Len(read)] # ""
     /\ ~StartsWith(read[Len(read)], "event:")
     /\ ~StartsWith(read[Len(read)], "data:"))
        => (pc = "idle" /\ FramingError(result))

\* An unprefixed line read as the second line of a frame has raised the framing error.
C5_Witness ==
    /\ pc = "idle"
    /\ times = 1
    /\ read = <<"event:" \o Event_conversation_chat_created, "", "id:1">>
    /\ FramingError(result)

\* C6: a completed frame whose event name is no value of Event (the empty name
\* included) ends the pull with the unknown-event exception.
C6_UnknownEventIsError ==
    (PullDispatched /\ event \notin Event) => UnknownEventError(result)

\* A frame with the empty event name has raised the unknown-event exception.
C6_Witness ==
    /\ PullDispatched
    /\ read = <<"event:", "data:" \o ChatJson>>
    /\ UnknownEventError(result)

\* C7: the unknown-event exception names the frame's event name.
C7_UnknownEventErrorNamesTag ==
    (PullDispatched /\ UnknownEventError(result)) => Contains(result.msg, event)

\* C8: a frame whose event name is error, in either line order, raises the stream
\* error, and its message contains the frame's data value.
C8_ErrorEventCarriesData ==
    (PullDispatched /\ event = Event_error)
        => (StreamError(result) /\ Contains(result.msg, data))

\* C9: once a pull has stopped at a done frame, no later pull consumes a line, and
\* every later pull ends by StopIteration.
C9_TerminationIsAbsorbing ==
    [][terminated => (pos' = pos /\ (pc' = "idle" => CleanStop(result')))]_vars

\* C10: once a pull has failed, no later pull consumes a line or returns a ChatEvent.
C10_FailureIsTerminal ==
    [][failed => (pos' = pos /\ (pc' = "idle" => result'.kind # "return"))]_vars

\* The last pull has finished, by a return or by an exception.
PullFinished == pc = "idle" /\ result # NoResult

\* C11: a pull that read one event: line and one data: line has the outcome of the
\* pull that reads the same two lines in the other order.
C11_LineOrderIsNotSignificant ==
    (PullDispatched /\ OneEventOneData)
        => result = PullOf(<<NonBlankRead[2], NonBlankRead[1]>>)

\* A line that is empty or holds only a trailing CR.
IsBlankLine(l) == l = "" \/ l = "\r"

\* ls without its leading blank lines.
RECURSIVE DropLeadingBlank(_)
DropLeadingBlank(ls) ==
    IF ls # <<>> /\ IsBlankLine(Head(ls)) THEN DropLeadingBlank(Tail(ls)) ELSE ls

\* C12: blank lines (empty, or only a CR) before a frame are skipped: a pull has the
\* outcome of the pull that reads the same lines without the leading blank ones.
C12_LeadingBlankLinesAreSkipped ==
    PullFinished => result = PullOf(DropLeadingBlank(read))

\* json.JSONDecodeError and the validation error of the model classes.
DecodeError(r) == r.kind = "raise" /\ r.exc \in {"JSONDecodeError", "ValidationError"}

\* C13: a frame of a message or chat kind whose data value is not JSON (the empty
\* value included) or lacks a required field of its schema ends the pull with a decode
\* error, which is none of the framing, unknown-event and stream errors; no ChatEvent.
C13_BadPayloadIsDecodeError ==
    (PullDispatched /\ OneEventOneData) =>
        /\ (/\ WireEvent \in MessageBearing
            /\ \/ ~JsonLoads(WireData).ok
               \/ ~({"role", "content", "content_type"} \subseteq DOMAIN JsonLoads(WireData).obj))
           => DecodeError(result)
        /\ (/\ WireEvent \in ChatBearing
            /\ \/ ~JsonLoads(WireData).ok
               \/ ~({"id", "conversation_id", "bot_id", "status"}
                      \subseteq DOMAIN JsonLoads(WireData).obj))
           => DecodeError(result)
        /\ DecodeError(result)
           => /\ ~FramingError(result)
              /\ ~UnknownEventError(result)
              /\ ~StreamError(result)
              /\ ~CleanStop(result)

\* A message frame whose payload lacks `role` has raised the validation error.
C13_Witness ==
    /\ PullDispatched
    /\ read = <<"event:" \o Event_conversation_message_delta, "data:" \o MsgNoRoleJson>>
    /\ result.exc = "ValidationError"

\* C16: the outcome of a pull is a function of the lines that pull consumed: it is the
\* outcome of __next__ started with fresh locals on exactly those lines, whatever the
\* earlier pulls read and however they ended.
C16_NoFrameStateSurvives ==
    PullFinished => result = PullOf(read)

\* After an earlier pull failed, a pull has read a chat frame and returned its event.
C16_Witness ==
    /\ failed
    /\ PullDispatched
    /\ read = <<"event:" \o Event_conversation_chat_created, "data:" \o ChatJson>>
    /\ result.kind = "return"

\* The event: line and the data: line of a frame that has one of each.
WireEventLine ==
    IF IsEventLine(NonBlankRead[1]) THEN NonBlankRead[1] ELSE NonBlankRead[2]
WireDataLine ==
    IF IsDataLine(NonBlankRead[1]) THEN NonBlankRead[1] ELSE NonBlankRead[2]

\* C17: the field values of a frame are the texts after the prefixes, unchanged: the
\* prefix put back before the value gives the line; an event name that is a known tag
\* with a space before or after it is an unknown event.
C17_FieldValuesAreVerbatim ==
    (PullDispatched /\ OneEventOneData) =>
        /\ "event:" \o event = WireEventLine
        /\ "data:" \o data = WireDataLine
        /\ (WireEventLine \in {"event: done", "event:done "}) => UnknownEventError(result)

\* The frame event: done (a space after the colon) has raised the unknown-event error.
C17_Witness ==
    /\ PullDispatched
    /\ read = <<"event: done", "data:">>
    /\ UnknownEventError(result)

\* C18: a pull that finds no non-empty line (the sequence is exhausted, or only empty
\* lines were left) ends by StopIteration: no error, no ChatEvent.
C18_ExhaustedSequenceStopsCleanly ==
    (PullFinished /\ NonBlankRead = <<>>) => result = Raise("StopIteration", "")

\* With no done frame read so far, a pull has skipped two empty lines, met the end of
\* the sequence and stopped cleanly.
C18_Witness ==
    /\ pc = "idle"
    /\ ~terminated
    /\ exhausted
    /\ read = <<"", "">>
    /\ CleanStop(result)

\* The pull read an empty line after the first non-empty line of its frame.
EmptyLineInsideFrame ==
    \E i, j \in 1..Len(read) : i < j /\ read[i] # "" /\ read[j] = ""

\* C19: empty lines between the first and the second line of a frame are skipped: the
\* pull has the outcome of the pull that reads the same lines without the empty ones,
\* and a dispatched frame still holds exactly two non-empty lines.
C19_EmptyLinesInsideFrameAreSkipped ==
    (PullFinished /\ EmptyLineInsideFrame) =>
        /\ result = PullOf(NonBlankRead)
        /\ PullDispatched => Len(NonBlankRead) = 2

\* A message frame with two empty lines between its lines has returned its event.
C19_Witness ==
    /\ PullDispatched
    /\ read = <<"event:" \o Event_conversation_message_delta, "", "", "data:" \o MsgJson>>
    /\ result.kind = "return"

\* Every pull finished so far has returned a ChatEvent.
OnlyReturnsSoFar == pc = "idle" /\ ~failed /\ ~terminated /\ ~exhausted

\* C14: a pull that returns a ChatEvent has consumed exactly two non-empty lines and
\* nothing after the second of them; after k pulls that all returned, 2k non-empty
\* lines have been consumed; before the first pull nothing has been consumed.
C14_OneFramePerPull ==
    /\ (pc = "idle" /\ result.kind = "return")
         => (Len(NonBlankRead) = 2 /\ read[Len(read)] # "")
    /\ OnlyReturnsSoFar => nonblank = 2 * Len(returns)
    /\ (pc = "idle" /\ result = NoResult) => (pos = 0 /\ nonblank = 0)

\* Two pulls have returned, having consumed four non-empty lines and one empty line.
C14_Witness ==
    /\ OnlyReturnsSoFar
    /\ Len(returns) = 2
    /\ nonblank = 4
    /\ pos = 5

\* The ChatEvent a payload frame with the lines a and b stands for.
FrameEvent(a, b) ==
    LET el == IF StartsWith(a, "event:") THEN a ELSE b
        dl == IF StartsWith(a, "event:") THEN b ELSE a
        e == SliceFrom(el, 6)
        obj == JsonLoads(SliceFrom(dl, 5)).obj
    IN  IF e \in MessageBearing THEN ChatEvent(e, None, Message(obj))
        ELSE ChatEvent(e, Chat(obj), None)

\* The lines consumed so far are k payload frames followed by a done frame.
WireIsFramesThenDone ==
    /\ wire # Garbled
    /\ Len(wire) >= 2
    /\ Len(wire) % 2 = 0
    /\ DoneFrame(wire[Len(wire) - 1], wire[Len(wire)])

\* C15, first part: once k payload frames and a done frame have been consumed and the
\* pull has finished, the pulls have returned exactly the k ChatEvents of the frames,
\* in wire order, and the last pull ended by StopIteration.
C15_FramesDecodedInOrder ==
    (pc = "idle" /\ WireIsFramesThenDone) =>
        /\ returns = [i \in 1..((Len(wire) \div 2) - 1) |->
                        FrameEvent(wire[2 * i - 1], wire[2 * i])]
        /\ CleanStop(result)

\* C15, second part: no iterator both ends cleanly at a done frame and fails.
C15_NeverBothStopAndError == ~(terminated /\ failed)

\* C15: k payload frames followed by a done frame give k ChatEvents in wire order and
\* then a clean stop, and an iterator ends cleanly or in an error, never both.
C15_FramesThenCleanStop == C15_FramesDecodedInOrder /\ C15_NeverBothStopAndError

====
